---- MODULE Spec2Model ----
(***************************************************************************)
(* Model of src/bigquery/bq_c19.py: the exploratory COVID-19 pipeline.     *)
(*                                                                         *)
(* The script runs once, top to bottom.  Its state is the set of frames it *)
(* assigns (data, ny_data, monthly_deaths, outliers, outliers_deaths,      *)
(* data2, states_and_highest_month, pop_per_state); each assignment of the *)
(* script is one action and pc is the position in the script.              *)
(*                                                                         *)
(* Representation.                                                         *)
(*  - A nullable value (SQL NULL, pandas <NA>/NaN) is a set with at most   *)
(*    one element: {} is missing, {v} is the value v.                      *)
(*  - A date is <<year, month, day>>.                                      *)
(*  - A data frame is a sequence of records (rows in frame order).  The    *)
(*    result of a query without ORDER BY has no row order: it is a set.    *)
(*  - FLOAT64 results are kept exact.  A mean is the rational num/den; a   *)
(*    standard deviation is the root of the rational rad_num/rad_den; a    *)
(*    z-score is sign * sqrt(num/den); a per-capita value is num/den.      *)
(*  - Where SQL or pandas leave the order of equal keys open (ORDER BY,    *)
(*    sort_values with the default quicksort) the action may produce any   *)
(*    order that is sorted by the key.                                     *)
(* The row-count assertion of line 41 pins one dataset snapshot; the model *)
(* runs the same statements over small tables of the same schema.          *)
(***************************************************************************)
EXTENDS Integers, Sequences, FiniteSets, TLC

VARIABLES table, pc, data, ny_data, monthly_deaths, outliers, outliers_deaths,
          data2_rows, data2, states_and_highest_month, pop_per_state

vars == <<table, pc, data, ny_data, monthly_deaths, outliers, outliers_deaths,
          data2_rows, data2, states_and_highest_month, pop_per_state>>

(***************************************************************************)
(* Bounds of the input tables.                                             *)
(***************************************************************************)
\* records of New York in the long series (11 deltas are the fewest that
\* can carry a z-score beyond 3)
MaxRecs == 12
\* records of a state in the short series
SmallRecs == 3
\* days of each calendar month that carry records
DaysUsed == 4
\* size of a one-day jump or downward correction of a cumulative count
SpikeSize == 5
\* population values of the reference data
MaxPop == 2

\* the row filter of line 111
NewYork == "New York"
Texas == "Texas"

\* thresholds of lines 165-166
upper_bound == 3
lower_bound == -3

(***************************************************************************)
(* Nullable values and dates.                                              *)
(***************************************************************************)
NULL == {}
Some(v) == {v}
IsNull(x) == x = {}
Val(x) == CHOOSE v \in x : TRUE

DateLess(a, b) ==
    \/ a[1] < b[1]
    \/ a[1] = b[1] /\ a[2] < b[2]
    \/ a[1] = b[1] /\ a[2] = b[2] /\ a[3] < b[3]
DateLeq(a, b) == a = b \/ DateLess(a, b)

RECURSIVE SumOver(_, _)
\* sum of f[x] over the finite set S
SumOver(S, f) ==
    IF S = {} THEN 0
    ELSE LET x == CHOOSE y \in S : TRUE IN f[x] + SumOver(S \ {x}, f)

RECURSIVE SortedIdx(_, _, _)
\* all orders of the rows s[i], i \in I, that are sorted by leq (a boolean
\* function of index pairs)
SortedIdx(s, I, leq) ==
    IF I = {} THEN {<<>>}
    ELSE UNION { { <<s[i]>> \o t : t \in SortedIdx(s, I \ {i}, leq) } :
                 i \in { k \in I : \A j \in I : leq[<<k, j>>] } }
\* all orders of frame s sorted by leq; leq[<<i, j>>] says row i may come
\* before row j
Sorts(s, leq) == SortedIdx(s, DOMAIN s, leq)
Pairs(s) == (DOMAIN s) \X (DOMAIN s)

RECURSIVE SetToSeq(_)
SetToSeq(S) ==
    IF S = {} THEN <<>>
    ELSE LET x == CHOOSE y \in S : TRUE IN <<x>> \o SetToSeq(S \ {x})

RECURSIVE TakeIdx(_, _, _)
\* the rows df[i], i \in I and i >= from, in frame order
TakeIdx(df, I, from) ==
    IF from > Len(df) THEN <<>>
    ELSE (IF from \in I THEN <<df[from]>> ELSE <<>>) \o TakeIdx(df, I, from + 1)
\* the rows of frame df at the indices of mask, in frame order (boolean
\* indexing df[mask])
SelectRows(df, mask) == TakeIdx(df, mask, 1)

Range(s) == { s[i] : i \in DOMAIN s }

(***************************************************************************)
(* The input: the table bigquery-public-data.covid19_nyt.us_states.  One   *)
(* row per (state_name, date), cumulative counts.                          *)
(***************************************************************************)
MonthList == << <<2020, 12>>, <<2021, 1>>, <<2021, 12>>, <<2022, 1>>,
                <<2022, 2>>, <<2022, 3>> >>
\* the k-th date that carries records
DateAt(k) ==
    LET m == MonthList[((k - 1) \div DaysUsed) + 1]
    IN  <<m[1], m[2], ((k - 1) % DaysUsed) + 1>>

\* a cumulative series of n days: steady growth b a day, and on day p (if
\* p > 0) a one-day jump or correction e
Series(n, b, p, e) ==
    [i \in 1..n |-> SpikeSize + b * (i - 1) + (IF p > 0 /\ i >= p THEN e ELSE 0)]
EventDays(n) == {2, (n + 1) \div 2, n} \cap (2..n)
SteadySeries(n) == { Series(n, b, 0, 0) : b \in 1..2 }
SeriesFamily(n) ==
    SteadySeries(n) \cup
    { Series(n, x[1], x[2], x[3]) :
        x \in (1..2) \X EventDays(n) \X {-SpikeSize, SpikeSize} }

StateRows(s, start, cases, dths) ==
    { [state_name |-> s, date |-> DateAt(start + i - 1),
       confirmed_cases |-> cases[i], deaths |-> dths[i]] : i \in DOMAIN cases }

NewYorkShort ==
    UNION { { StateRows(NewYork, DaysUsed - 1, c, d) :
                c \in SeriesFamily(n), d \in SeriesFamily(n) } : n \in 0..SmallRecs }
TexasShort ==
    UNION { { StateRows(Texas, DaysUsed + 1, c, d) :
                c \in SeriesFamily(n), d \in SteadySeries(n) } : n \in 0..2 }
SmallTables == { a \cup b : a \in NewYorkShort, b \in TexasShort }

LongTables ==
    { StateRows(NewYork, 1, c, d) \cup
      StateRows(Texas, MaxRecs - 1, Series(3, 2, 3, SpikeSize), Series(3, 1, 0, 0)) :
        c \in SeriesFamily(MaxRecs), d \in SeriesFamily(MaxRecs) }

\* four consecutive days of one month, deaths 100, 105, 103, 110
ExampleTable ==
    { [state_name |-> NewYork, date |-> <<2020, 3, i>>,
       confirmed_cases |-> 1000 + i, deaths |-> <<100, 105, 103, 110>>[i]] :
      i \in 1..4 }

Tables == SmallTables \cup LongTables \cup {ExampleTable}

\* the reference data of the population API: one record per entry
PopRecord(s, n) == [state_name |-> s, population |-> n]
PopTables ==
    { <<PopRecord(NewYork, MaxPop), PopRecord(Texas, MaxPop)>>,
      <<PopRecord(NewYork, 1), PopRecord("texas", MaxPop)>>,
      <<PopRecord(NewYork, 1), PopRecord(Texas, 1), PopRecord(NewYork, MaxPop)>> }

(***************************************************************************)
(* query (lines 45-73): deltas by LAG, then z-scores per state.            *)
(***************************************************************************)
\* mutant: LAG(col) OVER (ORDER BY date), the partition forgotten
Lag_NoPartition(tbl, r, col) ==
    LET prev == { q \in tbl : DateLess(q.date, r.date) }
    IN  IF prev = {} THEN NULL
        ELSE Some((CHOOSE q \in prev : \A q2 \in prev : DateLeq(q2.date, q.date))[col])

\* LAG(col) OVER (PARTITION BY state_name ORDER BY date) at row r
Lag(tbl, r, col) ==
    LET prev == { q \in tbl : q.state_name = r.state_name /\ DateLess(q.date, r.date) }
    IN  IF prev = {} THEN NULL
        ELSE Some((CHOOSE q \in prev : \A q2 \in prev : DateLeq(q2.date, q.date))[col])

\* SQL subtraction: NULL if either side is NULL
Minus(x, y) == IF IsNull(x) \/ IsNull(y) THEN NULL ELSE Some(Val(x) - Val(y))

us_states_day(tbl) ==
    { [state_name |-> r.state_name, date |-> r.date,
       confirmed_cases |-> r.confirmed_cases, deaths |-> r.deaths,
       confirmed_cases_day |->
           Minus(Some(r.confirmed_cases), Lag(tbl, r, "confirmed_cases")),
       deaths_day |-> Minus(Some(r.deaths), Lag(tbl, r, "deaths"))] : r \in tbl }

\* the window PARTITION BY state_name of row r
Partition(cte, r) == { q \in cte : q.state_name = r.state_name }

NonNull(rows, col) == { q \in rows : ~IsNull(q[col]) }
ColSum(rows, col) == SumOver(rows, [q \in rows |-> Val(q[col])])
ColSumSq(rows, col) == SumOver(rows, [q \in rows |-> Val(q[col]) * Val(q[col])])

\* AVG ignores NULLs; NULL over no values.  The mean is num / den.
AVG(rows, col) ==
    LET D == NonNull(rows, col)
    IN  IF D = {} THEN NULL
        ELSE Some([num |-> ColSum(D, col), den |-> Cardinality(D)])

\* mutant: STDDEV_POP, divisor N
STDDEV_POP(rows, col) ==
    LET D == NonNull(rows, col)
        N == Cardinality(D)
        S == ColSum(D, col)
    IN  IF N < 1 THEN NULL
        ELSE Some([rad_num |-> N * ColSumSq(D, col) - S * S, rad_den |-> N * N])

\* STDDEV is STDDEV_SAMP: divisor N - 1, NULL over fewer than two values.
\* The deviation is sqrt(rad_num / rad_den).
STDDEV(rows, col) ==
    LET D == NonNull(rows, col)
        N == Cardinality(D)
        S == ColSum(D, col)
    IN  IF N < 2 THEN NULL
        ELSE Some([rad_num |-> N * ColSumSq(D, col) - S * S, rad_den |-> N * (N - 1)])

\* mutant: the deviation used as it is, a zero deviation included
NULLIF_Never(std) == std

\* NULLIF(std, 0)
NULLIF(std) == IF ~IsNull(std) /\ Val(std).rad_num = 0 THEN NULL ELSE std

Sign(a) == IF a > 0 THEN 1 ELSE IF a < 0 THEN -1 ELSE 0

RECURSIVE GCD(_, _)
GCD(a, b) == IF b = 0 THEN a ELSE GCD(b, a % b)

\* the value sign * sqrt(num / den), num / den in lowest terms
Root(sign, num, den) ==
    LET g == GCD(num, den)
    IN  IF g = 0 THEN [sign |-> sign, num |-> num, den |-> den]
        ELSE [sign |-> sign, num |-> num \div g, den |-> den \div g]

\* (v - avg) / std; the z-score is sign * sqrt(num / den)
ZScore(v, avg, std) ==
    IF IsNull(v) \/ IsNull(avg) \/ IsNull(std) THEN NULL
    ELSE LET a == Val(v) * Val(avg).den - Val(avg).num
         IN  Some(Root(Sign(a),
                       a * a * Val(std).rad_den,
                       Val(avg).den * Val(avg).den * Val(std).rad_num))

ZScoreColumn(cte, r, col) ==
    ZScore(r[col], AVG(Partition(cte, r), col), NULLIF(STDDEV(Partition(cte, r), col)))

\* the SELECT of lines 57-71 (before ORDER BY)
ZScoreSelect(cte) ==
    { [date |-> r.date, state_name |-> r.state_name,
       confirmed_cases_day |-> r.confirmed_cases_day,
       deaths_day |-> r.deaths_day,
       confirmed_cases_day_zscore |-> ZScoreColumn(cte, r, "confirmed_cases_day"),
       deaths_day_zscore |-> ZScoreColumn(cte, r, "deaths_day")] : r \in cte }

ByDate(a, b) == DateLeq(a.date, b.date)

\* ORDER BY date: any order of the rows that is sorted by date
OrderByDate(rows) ==
    LET s == SetToSeq(rows)
    IN  Sorts(s, [p \in Pairs(s) |-> ByDate(s[p[1]], s[p[2]])])

(***************************************************************************)
(* Cleaning (lines 107-108), New York (111-118), outliers (165-176).       *)
(***************************************************************************)
\* mutant: fillna(0) before the clip (the commented-out line 100)
Clip_FillNa(x) == IF IsNull(x) THEN Some(0) ELSE Some(IF Val(x) < 0 THEN 0 ELSE Val(x))

\* Series.clip(lower=0) on one value: <NA> stays <NA>
Clip(x) == IF IsNull(x) THEN NULL ELSE Some(IF Val(x) < 0 THEN 0 ELSE Val(x))

\* mutant: data = data.clip(lower=0), every numeric column clipped
ClipZ(z) ==
    IF IsNull(z) \/ Val(z).sign >= 0 THEN z
    ELSE Some([sign |-> 0, num |-> 0, den |-> Val(z).den])
ClipFrame(df, col) ==
    [i \in DOMAIN df |->
        [df[i] EXCEPT !.confirmed_cases_day = Clip(@), !.deaths_day = Clip(@),
                      !.confirmed_cases_day_zscore = ClipZ(@),
                      !.deaths_day_zscore = ClipZ(@)]]

\* data[col] = data[col].clip(lower=0)
ClipColumn(df, col) == [i \in DOMAIN df |-> [df[i] EXCEPT ![col] = Clip(@)]]

\* data[data["state_name"] == "New York"]
IsNewYork(r) == r.state_name = NewYork
FilterState(df) == SelectRows(df, { i \in DOMAIN df : IsNewYork(df[i]) })

\* sort_values(by="date")
SortByDate(df) == Sorts(df, [p \in Pairs(df) |-> ByDate(df[p[1]], df[p[2]])])

\* mutant: dt.month, the month number without the year
ToMonthNumber(date) == <<0, date[2]>>

\* dt.to_period("M")
ToPeriodM(date) == <<date[1], date[2]>>
PeriodLeq(a, b) == a[1] < b[1] \/ (a[1] = b[1] /\ a[2] <= b[2])

\* ny_data["month"] = ny_data["date"].dt.to_period("M")
WithMonth(df) ==
    [i \in DOMAIN df |->
        [date |-> df[i].date, state_name |-> df[i].state_name,
         confirmed_cases_day |-> df[i].confirmed_cases_day,
         deaths_day |-> df[i].deaths_day,
         confirmed_cases_day_zscore |-> df[i].confirmed_cases_day_zscore,
         deaths_day_zscore |-> df[i].deaths_day_zscore,
         month |-> ToPeriodM(df[i].date)]]

\* the group keys of groupby("month"), ascending (sort=True)
GroupKeys(df) ==
    LET keys == SetToSeq({ df[i].month : i \in DOMAIN df })
    IN  CHOOSE t \in Sorts(keys, [p \in Pairs(keys) |->
                                    PeriodLeq(keys[p[1]], keys[p[2]])]) : TRUE

\* sum() of one group: <NA> is skipped, an all-<NA> group sums to 0
GroupSum(df, key) ==
    LET I == { i \in DOMAIN df : df[i].month = key /\ ~IsNull(df[i].deaths_day) }
    IN  SumOver(I, [i \in I |-> Val(df[i].deaths_day)])

\* groupby("month")["deaths_day"].sum().reset_index()
GroupByMonthSum(df) ==
    LET keys == GroupKeys(df)
    IN  [k \in DOMAIN keys |-> [month |-> keys[k], deaths_day |-> GroupSum(df, keys[k])]]

\* z > c and z < c for a z-score z and an integer c; NaN compares False
ZGreater(z, c) ==
    /\ ~IsNull(z)
    /\ IF c >= 0 THEN Val(z).sign = 1 /\ Val(z).num > c * c * Val(z).den
                 ELSE Val(z).sign >= 0 \/ Val(z).num < c * c * Val(z).den
ZLess(z, c) ==
    /\ ~IsNull(z)
    /\ IF c <= 0 THEN Val(z).sign = -1 /\ Val(z).num > c * c * Val(z).den
                 ELSE Val(z).sign <= 0 \/ Val(z).num < c * c * Val(z).den

\* mutant: the lower threshold forgotten
IsCaseOutlier_UpperOnly(r) == ZGreater(r.confirmed_cases_day_zscore, upper_bound)

\* the row masks of lines 169-176
IsCaseOutlier(r) ==
    \/ ZGreater(r.confirmed_cases_day_zscore, upper_bound)
    \/ ZLess(r.confirmed_cases_day_zscore, lower_bound)
IsDeathOutlier(r) ==
    \/ ZGreater(r.deaths_day_zscore, upper_bound)
    \/ ZLess(r.deaths_day_zscore, lower_bound)

(***************************************************************************)
(* sql_query (lines 227-238), state peaks (255-264), per capita (298-314). *)
(***************************************************************************)
\* mutant: PARTITION BY state_name, EXTRACT(MONTH ..), the year forgotten
MonthWindow_NoYear(tbl, r) ==
    { q \in tbl : q.state_name = r.state_name /\ q.date[2] = r.date[2] }

\* the window PARTITION BY state_name, EXTRACT(YEAR ..), EXTRACT(MONTH ..)
MonthWindow(tbl, r) ==
    { q \in tbl : /\ q.state_name = r.state_name
                  /\ q.date[1] = r.date[1]
                  /\ q.date[2] = r.date[2] }

\* MAX over a non-empty set of integers
Max(S) == CHOOSE x \in S : \A y \in S : y <= x

\* the rows sql_query returns; no ORDER BY, so no row order
PeakSelect(tbl) ==
    { [state_name |-> r.state_name, date |-> r.date,
       year |-> r.date[1], month |-> r.date[2],
       highest_monthly_confirmed_cases |->
           Max({ q.confirmed_cases : q \in MonthWindow(tbl, r) })] : r \in tbl }

\* order of the state names as strings
NameRank(s) == IF s = NewYork THEN 1 ELSE 2
KeyLeq(a, b) ==
    \/ NameRank(a[1]) < NameRank(b[1])
    \/ a[1] = b[1] /\ a[2] < b[2]
    \/ a[1] = b[1] /\ a[2] = b[2] /\ a[3] <= b[3]

\* the group key of a row under groupby(["state_name", "year", "month"])
GroupKey(r) == <<r.state_name, r.year, r.month>>

\* groupby([...]).max().reset_index(): one row per key, keys ascending,
\* every other column reduced by max
GroupByMax(rows) ==
    LET ks == SetToSeq({ GroupKey(r) : r \in rows })
        keys == CHOOSE t \in Sorts(ks, [p \in Pairs(ks) |->
                                          KeyLeq(ks[p[1]], ks[p[2]])]) : TRUE
        grp(k) == { r \in rows : GroupKey(r) = keys[k] }
    IN  [k \in DOMAIN keys |->
            [state_name |-> keys[k][1], year |-> keys[k][2], month |-> keys[k][3],
             date |-> CHOOSE d \in { r.date : r \in grp(k) } :
                        \A r \in grp(k) : DateLeq(r.date, d),
             highest_monthly_confirmed_cases |->
                 Max({ r.highest_monthly_confirmed_cases : r \in grp(k) })]]

ByPeakDesc(a, b) ==
    a.highest_monthly_confirmed_cases >= b.highest_monthly_confirmed_cases

\* sort_values(by='highest_monthly_confirmed_cases', ascending=False)
SortByPeak(df) == Sorts(df, [p \in Pairs(df) |-> ByPeakDesc(df[p[1]], df[p[2]])])

\* the loop of lines 260-264: the dict {state: highest_month}
StatePeaks(df) ==
    [s \in { df[i].state_name : i \in DOMAIN df } |->
        Max({ df[i].highest_monthly_confirmed_cases :
                i \in { j \in DOMAIN df : df[j].state_name = s } })]

\* mutant: how="inner", a row without a match is dropped
JoinRow_Inner(r, pop) ==
    LET hits == { i \in DOMAIN pop : pop[i].state_name = r.state_name }
    IN  [k \in 1..Cardinality(hits) |->
            [state_name |-> r.state_name, year |-> r.year, month |-> r.month,
             date |-> r.date,
             highest_monthly_confirmed_cases |-> r.highest_monthly_confirmed_cases,
             population |-> Some(TakeIdx(pop, hits, 1)[k].population)]]

\* one left row joined with the reference data: a row per match in the
\* order of the reference data, or one row with no population
JoinRow(r, pop) ==
    LET with(p) == [state_name |-> r.state_name, year |-> r.year, month |-> r.month,
                    date |-> r.date,
                    highest_monthly_confirmed_cases |-> r.highest_monthly_confirmed_cases,
                    population |-> p]
        hits == { i \in DOMAIN pop : pop[i].state_name = r.state_name }
    IN  IF hits = {} THEN <<with(NULL)>>
        ELSE [k \in 1..Cardinality(hits) |->
                with(Some(TakeIdx(pop, hits, 1)[k].population))]

RECURSIVE Merge(_, _)
\* data2.merge(pop_per_state, how="left", on="state_name")
Merge(df, pop) ==
    IF df = <<>> THEN <<>> ELSE JoinRow(Head(df), pop) \o Merge(Tail(df), pop)

\* cases / population; NaN if the population is missing.  The value is
\* num / den.
Divide(cases, population) ==
    IF IsNull(population) THEN NULL
    ELSE Some([num |-> cases, den |-> Val(population)])

\* lines 309-311
WithPerCapita(df) ==
    [i \in DOMAIN df |->
        [state_name |-> df[i].state_name, year |-> df[i].year, month |-> df[i].month,
         date |-> df[i].date,
         highest_monthly_confirmed_cases |-> df[i].highest_monthly_confirmed_cases,
         population |-> df[i].population,
         highest_monthly_confirmed_cases_per_capita |->
             Divide(df[i].highest_monthly_confirmed_cases, df[i].population)]]

\* descending, NaN last
ByPerCapitaDesc(a, b) ==
    LET x == a.highest_monthly_confirmed_cases_per_capita
        y == b.highest_monthly_confirmed_cases_per_capita
    IN  \/ IsNull(y)
        \/ ~IsNull(x) /\ Val(x).num * Val(y).den >= Val(y).num * Val(x).den

\* sort_values(by='highest_monthly_confirmed_cases_per_capita', ascending=False)
SortByPerCapita(df) ==
    Sorts(df, [p \in Pairs(df) |-> ByPerCapitaDesc(df[p[1]], df[p[2]])])

(***************************************************************************)
(* The script, one action per assignment.                                  *)
(***************************************************************************)
Init ==
    /\ table \in Tables
    /\ pc = "query"
    /\ data = <<>>
    /\ ny_data = <<>>
    /\ monthly_deaths = <<>>
    /\ outliers = <<>>
    /\ outliers_deaths = <<>>
    /\ data2_rows = {}
    /\ data2 = <<>>
    /\ states_and_highest_month = <<>>
    /\ pop_per_state = <<>>

\* line 76: data = client.query(query).to_dataframe()
RunQuery ==
    /\ pc = "query"
    /\ data' \in OrderByDate(ZScoreSelect(us_states_day(table)))
    /\ pc' = "clip_cases"
    /\ UNCHANGED <<table, ny_data, monthly_deaths, outliers, outliers_deaths,
                   data2_rows, data2, states_and_highest_month, pop_per_state>>

\* line 107
ClipCases ==
    /\ pc = "clip_cases"
    /\ data' = ClipColumn(data, "confirmed_cases_day")
    /\ pc' = "clip_deaths"
    /\ UNCHANGED <<table, ny_data, monthly_deaths, outliers, outliers_deaths,
                   data2_rows, data2, states_and_highest_month, pop_per_state>>

\* line 108
ClipDeaths ==
    /\ pc = "clip_deaths"
    /\ data' = ClipColumn(data, "deaths_day")
    /\ pc' = "filter_ny"
    /\ UNCHANGED <<table, ny_data, monthly_deaths, outliers, outliers_deaths,
                   data2_rows, data2, states_and_highest_month, pop_per_state>>

\* lines 111-112
FilterNewYork ==
    /\ pc = "filter_ny"
    /\ ny_data' \in SortByDate(FilterState(data))
    /\ pc' = "month"
    /\ UNCHANGED <<table, data, monthly_deaths, outliers, outliers_deaths,
                   data2_rows, data2, states_and_highest_month, pop_per_state>>

\* line 115
AddMonth ==
    /\ pc = "month"
    /\ ny_data' = WithMonth(ny_data)
    /\ pc' = "monthly_deaths"
    /\ UNCHANGED <<table, data, monthly_deaths, outliers, outliers_deaths,
                   data2_rows, data2, states_and_highest_month, pop_per_state>>

\* lines 116-118
MonthlyDeaths ==
    /\ pc = "monthly_deaths"
    /\ monthly_deaths' = GroupByMonthSum(ny_data)
    /\ pc' = "outliers"
    /\ UNCHANGED <<table, data, ny_data, outliers, outliers_deaths,
                   data2_rows, data2, states_and_highest_month, pop_per_state>>

\* lines 169-172
FindOutliers ==
    /\ pc = "outliers"
    /\ outliers' = SelectRows(ny_data, { i \in DOMAIN ny_data : IsCaseOutlier(ny_data[i]) })
    /\ pc' = "outliers_deaths"
    /\ UNCHANGED <<table, data, ny_data, monthly_deaths, outliers_deaths,
                   data2_rows, data2, states_and_highest_month, pop_per_state>>

\* lines 173-176
FindOutliersDeaths ==
    /\ pc = "outliers_deaths"
    /\ outliers_deaths' =
          SelectRows(ny_data, { i \in DOMAIN ny_data : IsDeathOutlier(ny_data[i]) })
    /\ pc' = "sql_query"
    /\ UNCHANGED <<table, data, ny_data, monthly_deaths, outliers,
                   data2_rows, data2, states_and_highest_month, pop_per_state>>

\* line 240: data2 = client.query(sql_query).to_dataframe()
RunSqlQuery ==
    /\ pc = "sql_query"
    /\ data2_rows' = PeakSelect(table)
    /\ pc' = "groupby"
    /\ UNCHANGED <<table, data, ny_data, monthly_deaths, outliers, outliers_deaths,
                   data2, states_and_highest_month, pop_per_state>>

\* line 255
GroupBy ==
    /\ pc = "groupby"
    /\ data2' = GroupByMax(data2_rows)
    /\ pc' = "sort_peak"
    /\ UNCHANGED <<table, data, ny_data, monthly_deaths, outliers, outliers_deaths,
                   data2_rows, states_and_highest_month, pop_per_state>>

\* line 258
SortPeak ==
    /\ pc = "sort_peak"
    /\ data2' \in SortByPeak(data2)
    /\ pc' = "state_peaks"
    /\ UNCHANGED <<table, data, ny_data, monthly_deaths, outliers, outliers_deaths,
                   data2_rows, states_and_highest_month, pop_per_state>>

\* lines 260-264
BuildStatePeaks ==
    /\ pc = "state_peaks"
    /\ states_and_highest_month' = StatePeaks(data2)
    /\ pc' = "fetch_pop"
    /\ UNCHANGED <<table, data, ny_data, monthly_deaths, outliers, outliers_deaths,
                   data2_rows, data2, pop_per_state>>

\* lines 298-305: the reference data the API returns
FetchPopulation ==
    /\ pc = "fetch_pop"
    /\ pop_per_state' \in PopTables
    /\ pc' = "merge"
    /\ UNCHANGED <<table, data, ny_data, monthly_deaths, outliers, outliers_deaths,
                   data2_rows, data2, states_and_highest_month>>

\* line 308
MergePopulation ==
    /\ pc = "merge"
    /\ data2' = Merge(data2, pop_per_state)
    /\ pc' = "per_capita"
    /\ UNCHANGED <<table, data, ny_data, monthly_deaths, outliers, outliers_deaths,
                   data2_rows, states_and_highest_month, pop_per_state>>

\* lines 309-311
PerCapita ==
    /\ pc = "per_capita"
    /\ data2' = WithPerCapita(data2)
    /\ pc' = "sort_per_capita"
    /\ UNCHANGED <<table, data, ny_data, monthly_deaths, outliers, outliers_deaths,
                   data2_rows, states_and_highest_month, pop_per_state>>

\* line 314
SortPerCapita ==
    /\ pc = "sort_per_capita"
    /\ data2' \in SortByPerCapita(data2)
    /\ pc' = "done"
    /\ UNCHANGED <<table, data, ny_data, monthly_deaths, outliers, outliers_deaths,
                   data2_rows, states_and_highest_month, pop_per_state>>

Next ==
    \/ RunQuery
    \/ ClipCases
    \/ ClipDeaths
    \/ FilterNewYork
    \/ AddMonth
    \/ MonthlyDeaths
    \/ FindOutliers
    \/ FindOutliersDeaths
    \/ RunSqlQuery
    \/ GroupBy
    \/ SortPeak
    \/ BuildStatePeaks
    \/ FetchPopulation
    \/ MergePopulation
    \/ PerCapita
    \/ SortPerCapita

Spec == Init /\ [][Next]_vars

(***************************************************************************)
(* What the claims are stated in: the input table itself.                  *)
(***************************************************************************)
PcOrder ==
    <<"query", "clip_cases", "clip_deaths", "filter_ny", "month", "monthly_deaths",
      "outliers", "outliers_deaths", "sql_query", "groupby", "sort_peak",
      "state_peaks", "fetch_pop", "merge", "per_capita", "sort_per_capita", "done">>
PcIndex(p) == CHOOSE i \in DOMAIN PcOrder : PcOrder[i] = p
\* the statement at label p has run
Ran(p) == PcIndex(pc) > PcIndex(p)

StateNames == { r.state_name : r \in table }
Recs(s) == { r \in table : r.state_name = s }
Earliest(r) == \A q \in Recs(r.state_name) : DateLeq(r.date, q.date)
\* the record of the same state on the immediately preceding date
Pred(r) ==
    CHOOSE q \in Recs(r.state_name) :
        /\ DateLess(q.date, r.date)
        /\ ~\E m \in Recs(r.state_name) : DateLess(q.date, m.date) /\ DateLess(m.date, r.date)
\* the signed day-over-day change of a cumulative column ("confirmed_cases"
\* or "deaths") at a record that is not the earliest of its state
RawDelta(r, cum) == r[cum] - Pred(r)[cum]
Later(s) == { r \in Recs(s) : ~Earliest(r) }
CleanDelta(r, cum) ==
    IF Earliest(r) THEN 0 ELSE IF RawDelta(r, cum) < 0 THEN 0 ELSE RawDelta(r, cum)
\* the rows of a frame that belong to record r
RowsOf(df, r) ==
    { i \in DOMAIN df : df[i].state_name = r.state_name /\ df[i].date = r.date }
OneRowEach(df) ==
    /\ Len(df) = Cardinality(table)
    /\ \A r \in table : Cardinality(RowsOf(df, r)) = 1
DayCol(cum) == IF cum = "deaths" THEN "deaths_day" ELSE "confirmed_cases_day"
ZCol(cum) == IF cum = "deaths" THEN "deaths_day_zscore" ELSE "confirmed_cases_day_zscore"
CumCols == {"confirmed_cases", "deaths"}

\* C1: right after the query every record has one row; its delta is the
\* cumulative value minus that of the preceding date of the same state, the
\* earliest date of a state has a missing delta, and a state with n records
\* has n - 1 defined deltas.
C1_Delta ==
    pc = "clip_cases" =>
        /\ OneRowEach(data)
        /\ \A r \in table : \A i \in RowsOf(data, r) : \A cum \in CumCols :
              data[i][DayCol(cum)] =
                  (IF Earliest(r) THEN NULL ELSE Some(RawDelta(r, cum)))
        /\ \A s \in StateNames : \A cum \in CumCols :
              Cardinality({ i \in DOMAIN data :
                              data[i].state_name = s /\ ~IsNull(data[i][DayCol(cum)]) })
                  = Cardinality(Recs(s)) - 1

\* two states with interleaved dates, a negative delta and a missing one
C1_Witness ==
    /\ pc = "clip_cases"
    /\ \E i, j, k \in DOMAIN data :
          /\ i < j /\ j < k
          /\ data[i].state_name = NewYork
          /\ data[j].state_name = Texas /\ IsNull(data[j].deaths_day)
          /\ data[k].state_name = NewYork
          /\ ~IsNull(data[k].confirmed_cases_day) /\ Val(data[k].confirmed_cases_day) < 0

\* the moments of a state's defined deltas
DeltaN(s) == Cardinality(Later(s))
DeltaS(s, cum) == SumOver(Later(s), [r \in Later(s) |-> RawDelta(r, cum)])
DeltaSS(s, cum) ==
    SumOver(Later(s), [r \in Later(s) |-> RawDelta(r, cum) * RawDelta(r, cum)])
\* N * sum of squares - square of the sum: N^2 times the population variance
DeltaQ(s, cum) == DeltaN(s) * DeltaSS(s, cum) - DeltaS(s, cum) * DeltaS(s, cum)
\* z = a / (N * sd) with sd^2 = Q / (N * div), that is z^2 = a^2 * div / (N * Q),
\* where a is N * (value - mean); div = N gives the population deviation,
\* div = N - 1 the sample deviation
IsZScoreOf(z, a, N, Q, div) ==
    /\ ~IsNull(z)
    /\ Val(z).sign = Sign(a)
    /\ Val(z).den > 0
    /\ LET g == GCD(a * a * div, N * Q)
       IN  Val(z).num * g = a * a * div /\ Val(z).den * g = N * Q

\* C2 as stated: wherever the deviation is not zero, the z-score of a row
\* with a defined delta is (value - mean) / population deviation (divisor N)
\* of the state's own deltas.
C2_Original ==
    pc = "clip_cases" =>
        \A s \in StateNames : \A cum \in CumCols :
            LET N == DeltaN(s)
                S == DeltaS(s, cum)
                Q == DeltaQ(s, cum)
            IN  Q > 0 =>
                  \A r \in Later(s) : \A i \in RowsOf(data, r) :
                      IsZScoreOf(data[i][ZCol(cum)], N * RawDelta(r, cum) - S, N, Q, N)

\* C2 amended: the deviation is the sample deviation (divisor N - 1) of the
\* state's own defined deltas; the z-score is (value - mean) / deviation and
\* is missing when the delta is missing, when the state has fewer than two
\* defined deltas, or when the deviation is zero.
C2_SampleZScore ==
    pc = "clip_cases" =>
        \A s \in StateNames : \A cum \in CumCols :
            LET N == DeltaN(s)
                S == DeltaS(s, cum)
                Q == DeltaQ(s, cum)
            IN  \A r \in Recs(s) : \A i \in RowsOf(data, r) :
                    IF Earliest(r) \/ N < 2 \/ Q = 0
                    THEN IsNull(data[i][ZCol(cum)])
                    ELSE IsZScoreOf(data[i][ZCol(cum)],
                                    N * RawDelta(r, cum) - S, N, Q, N - 1)

\* a New York row above its mean and one below, and a Texas row with a
\* z-score of its own
C2_Witness ==
    /\ pc = "clip_cases"
    /\ \E i, j, k \in DOMAIN data :
          /\ data[i].state_name = NewYork /\ data[j].state_name = NewYork
          /\ ~IsNull(data[i].confirmed_cases_day_zscore)
          /\ Val(data[i].confirmed_cases_day_zscore).sign = 1
          /\ ~IsNull(data[j].confirmed_cases_day_zscore)
          /\ Val(data[j].confirmed_cases_day_zscore).sign = -1
          /\ data[k].state_name = Texas
          /\ ~IsNull(data[k].confirmed_cases_day_zscore)
          /\ Val(data[k].confirmed_cases_day_zscore).sign = -1

\* C3: a state whose defined deltas are all equal has a missing z-score in
\* every row (not zero, not an error value).
C3_ZeroVariance ==
    pc = "clip_cases" =>
        \A s \in StateNames : \A cum \in CumCols :
            (\A a, b \in Later(s) : RawDelta(a, cum) = RawDelta(b, cum)) =>
                \A i \in DOMAIN data :
                    data[i].state_name = s => IsNull(data[i][ZCol(cum)])

\* New York with at least two defined deltas, all equal and not zero
C3_Witness ==
    /\ pc = "clip_cases"
    /\ Cardinality(Later(NewYork)) >= 2
    /\ \A a, b \in Later(NewYork) : RawDelta(a, "deaths") = RawDelta(b, "deaths")
    /\ \E a \in Later(NewYork) : RawDelta(a, "deaths") > 0
    /\ \E a, b \in Later(NewYork) : RawDelta(a, "confirmed_cases") # RawDelta(b, "confirmed_cases")

\* C4: after cleaning, a delta is missing where it was missing, 0 where it
\* was negative and unchanged otherwise; clipping the cleaned columns again
\* changes nothing.
C4_Clip ==
    pc = "filter_ny" =>
        /\ OneRowEach(data)
        /\ \A r \in table : \A i \in RowsOf(data, r) : \A cum \in CumCols :
              /\ data[i][DayCol(cum)] =
                    (IF Earliest(r) THEN NULL
                     ELSE IF RawDelta(r, cum) < 0 THEN Some(0)
                     ELSE Some(RawDelta(r, cum)))
              /\ ~IsNull(data[i][DayCol(cum)]) => Val(data[i][DayCol(cum)]) >= 0
        /\ ClipColumn(ClipColumn(data, "confirmed_cases_day"), "deaths_day") = data

\* cleaned data with a clipped correction, a kept positive delta and a
\* missing delta
C4_Witness ==
    /\ pc = "filter_ny"
    /\ \E r \in table : ~Earliest(r) /\ RawDelta(r, "deaths") < 0
    /\ \E r \in table : ~Earliest(r) /\ RawDelta(r, "confirmed_cases") > 0
    /\ \E i \in DOMAIN data : IsNull(data[i].deaths_day)

ZColumns(df) ==
    [i \in DOMAIN df |-> <<df[i].date, df[i].state_name,
                           df[i].confirmed_cases_day_zscore, df[i].deaths_day_zscore>>]

\* C5: no statement after the query changes a z-score: cleaning leaves the
\* z-score columns of data as the query returned them, and the rows of
\* ny_data carry the z-scores of rows of data.
C5_ZScoresKept ==
    [][ /\ pc # "query" => ZColumns(data') = ZColumns(data)
        /\ pc = "filter_ny" => Range(ZColumns(ny_data')) \subseteq Range(ZColumns(data))
        /\ pc # "filter_ny" => ZColumns(ny_data') = ZColumns(ny_data) ]_vars

\* a New York row consumed by the outlier stage whose delta was clipped and
\* whose z-score is still negative
C5_Witness ==
    /\ pc = "outliers"
    /\ \E i \in DOMAIN ny_data :
          /\ ny_data[i].deaths_day = Some(0)
          /\ ~IsNull(ny_data[i].deaths_day_zscore)
          /\ Val(ny_data[i].deaths_day_zscore).sign = -1
          /\ \E r \in table : /\ RowsOf(ny_data, r) = {i}
                              /\ ~Earliest(r) /\ RawDelta(r, "deaths") < 0

MonthsOf(s) == { <<r.date[1], r.date[2]>> : r \in Recs(s) }
InMonth(s, m) == { r \in Recs(s) : r.date[1] = m[1] /\ r.date[2] = m[2] }
MonthBefore(a, b) == a[1] < b[1] \/ (a[1] = b[1] /\ a[2] < b[2])
CleanTotal(rs) == SumOver(rs, [r \in rs |-> CleanDelta(r, "deaths")])

\* C6: monthly_deaths has one row per calendar month in which New York has
\* a record, in chronological order; its total is the sum of the cleaned
\* deaths deltas of that month's records (missing counts 0); the totals add
\* up to the sum over all records; cumulative deaths 100, 105, 103, 110 in
\* one month give 12.
C6_Monthly ==
    pc = "outliers" =>
        /\ Len(monthly_deaths) = Cardinality(MonthsOf(NewYork))
        /\ { monthly_deaths[k].month : k \in DOMAIN monthly_deaths } = MonthsOf(NewYork)
        /\ \A k \in DOMAIN monthly_deaths : \A l \in DOMAIN monthly_deaths :
              k < l => MonthBefore(monthly_deaths[k].month, monthly_deaths[l].month)
        /\ \A k \in DOMAIN monthly_deaths :
              monthly_deaths[k].deaths_day =
                  CleanTotal(InMonth(NewYork, monthly_deaths[k].month))
        /\ SumOver(DOMAIN monthly_deaths,
                   [k \in DOMAIN monthly_deaths |-> monthly_deaths[k].deaths_day])
              = CleanTotal(Recs(NewYork))
        /\ table = ExampleTable =>
              monthly_deaths = << [month |-> <<2020, 3>>, deaths_day |-> 12] >>

\* three months, a year apart and with months without records between them,
\* and a downward correction that was clipped
C6_Witness ==
    /\ pc = "outliers"
    /\ Len(monthly_deaths) >= 3
    /\ \E k \in DOMAIN monthly_deaths : \E l \in DOMAIN monthly_deaths :
          /\ l = k + 1
          /\ monthly_deaths[k].month[1] = monthly_deaths[l].month[1]
          /\ monthly_deaths[l].month[2] > monthly_deaths[k].month[2] + 1
    /\ \E k \in DOMAIN monthly_deaths : \E l \in DOMAIN monthly_deaths :
          /\ monthly_deaths[k].month[2] = monthly_deaths[l].month[2]
          /\ monthly_deaths[k].month[1] < monthly_deaths[l].month[1]
    /\ \E r \in Later(NewYork) : RawDelta(r, "deaths") < 0

\* the z-score lies beyond 3 standard deviations: z^2 > 9 on either side
Beyond3(z) == ~IsNull(z) /\ Val(z).sign # 0 /\ Val(z).num > 9 * Val(z).den
NoRepeats(df) == \A i, j \in DOMAIN df : df[i] = df[j] => i = j

HighestCases(rs) == CHOOSE x \in { r.confirmed_cases : r \in rs } :
                        \A r \in rs : r.confirmed_cases <= x

UniqueNames(pop) == \A i, j \in DOMAIN pop : pop[i].state_name = pop[j].state_name => i = j
RowsOfState(df, s) == { i \in DOMAIN df : df[i].state_name = s }

\* C9 as stated: the frame on which the per-capita value is computed and
\* sorted has exactly one row per state, the row of the state's all-time
\* peak; its per-capita value is peak / population; the frame ends sorted by
\* that value, descending.
C9_OneRowPerState ==
    (pc = "done" /\ UniqueNames(pop_per_state)) =>
        /\ \A s \in StateNames :
              /\ Cardinality(RowsOfState(data2, s)) = 1
              /\ \A i \in RowsOfState(data2, s) :
                    /\ data2[i].highest_monthly_confirmed_cases = states_and_highest_month[s]
                    /\ \A j \in DOMAIN pop_per_state :
                          pop_per_state[j].state_name = s =>
                              data2[i].highest_monthly_confirmed_cases_per_capita =
                                  Some([num |-> states_and_highest_month[s],
                                        den |-> pop_per_state[j].population])
        /\ \A i, j \in DOMAIN data2 :
              (/\ i < j
               /\ ~IsNull(data2[i].highest_monthly_confirmed_cases_per_capita)
               /\ ~IsNull(data2[j].highest_monthly_confirmed_cases_per_capita)) =>
                  Val(data2[i].highest_monthly_confirmed_cases_per_capita).num
                    * Val(data2[j].highest_monthly_confirmed_cases_per_capita).den
                  >= Val(data2[j].highest_monthly_confirmed_cases_per_capita).num
                    * Val(data2[i].highest_monthly_confirmed_cases_per_capita).den

\* C10: the join matches on the exact state name.  A state with no record
\* of that name keeps one row per (year, month) group, with population and
\* per-capita value missing; if no name occurs twice in the reference data,
\* a matched state keeps exactly one row per group as well, with the
\* population of its record and peak / population of that row.
C10_LeftJoin ==
    Ran("per_capita") =>
        \A s \in StateNames :
            LET hits == { j \in DOMAIN pop_per_state : pop_per_state[j].state_name = s }
                rows == RowsOfState(data2, s)
                onePerGroup ==
                    /\ Cardinality(rows) = Cardinality(MonthsOf(s))
                    /\ \A m \in MonthsOf(s) : \E i \in rows :
                          /\ <<data2[i].year, data2[i].month>> = m
                          /\ data2[i].highest_monthly_confirmed_cases =
                                HighestCases(InMonth(s, m))
            IN  /\ hits = {} =>
                      /\ onePerGroup
                      /\ \A i \in rows :
                            /\ IsNull(data2[i].population)
                            /\ IsNull(data2[i].highest_monthly_confirmed_cases_per_capita)
                /\ (hits # {} /\ UniqueNames(pop_per_state)) =>
                      /\ onePerGroup
                      /\ \A i \in rows : \A j \in hits :
                            /\ data2[i].population = Some(pop_per_state[j].population)
                            /\ data2[i].highest_monthly_confirmed_cases_per_capita =
                                  Some([num |-> data2[i].highest_monthly_confirmed_cases,
                                        den |-> pop_per_state[j].population])

\* Texas is in the table and the reference data spell it "texas"; New York
\* is matched
C10_Witness ==
    /\ pc = "done"
    /\ Texas \in StateNames /\ NewYork \in StateNames
    /\ UniqueNames(pop_per_state)
    /\ \E j \in DOMAIN pop_per_state : pop_per_state[j].state_name = "texas"
    /\ \E i \in DOMAIN data2 : data2[i].state_name = Texas /\ IsNull(data2[i].population)
    /\ \E i \in DOMAIN data2 : data2[i].state_name = NewYork /\ ~IsNull(data2[i].population)

====
